---- MODULE Spec2Model ----
(***************************************************************************)
(* A model of homebridge-thermsmart-sensor.                                *)
(*                                                                         *)
(*   Spec         the radio side of therm-smart.js: ThermSmart.powerOn,    *)
(*                ThermSmart.scan, ThermSmart.scanForReadings and          *)
(*                ThermSmart.stopScan, driven by noble's stateChange,      *)
(*                discover and scanStop events, together with the legacy   *)
(*                ThermSmartSensor.isPoweredOn wait.                       *)
(*   FairSpec     Spec with the fairness of the event loop's timers.       *)
(*   SessionSpec  one ThermSmart instance: connect, _getCharacteristics,   *)
(*                _setupListeners and write, driven by the peripheral's    *)
(*                callbacks, its disconnect events and the notifications   *)
(*                of the notify characteristic.                            *)
(*                                                                         *)
(* Every action is one turn of the Node.js event loop: a call made by the  *)
(* user of the library, or one event or callback delivered by noble,       *)
(* together with the promise continuations (microtasks) it triggers.       *)
(***************************************************************************)
EXTENDS Integers, Sequences, FiniteSets, TLC

(***************************************************************************)
(* Bounds of the model.                                                    *)
(***************************************************************************)
\* scan sessions (calls of scan / scanForReadings) in one behaviour
MaxScans == 2
\* bytes of reading payload after the 8-byte header of an advertisement
MaxPayload == 2
\* calls of ThermSmart.stopScan whose promise is pending at one time
MaxStops == 1
\* characteristic discoveries on one peripheral: connect() is called while
\* fewer have succeeded
MaxDiscoveries == 2
\* calls of write() on one ThermSmart instance
MaxWrites == 2
\* notifications the notify characteristic delivers
MaxNotifs == 2
\* calls of ThermSmartSensor.loadTemperatureData
MaxLoads == 2

\* the clock of CleaningSpec stops here
MaxTime == 4

\* config.maxStaleTime, in steps of the clock
MaxStaleTime == 2

(***************************************************************************)
(* Program constants.                                                      *)
(***************************************************************************)
COMPANY_ID == 18498
MinDataLength == 9
HeaderLength == 8

\* the value of an absent allowlist (addresses undefined or null)
NoAddresses == [given |-> FALSE, list |-> {}]
Allowlist(list) == [given |-> TRUE, list |-> list]

(***************************************************************************)
(* Strings of hexadecimal digits. A character is a number: 0..15 is the    *)
(* hex digit (lower case, as noble reports addresses and as                *)
(* Number.prototype.toString(16) prints), Colon is ':'.                    *)
(***************************************************************************)
Colon == 16

HexByte(b) == <<b \div 16, b % 16>>

\* String.prototype.replace(/:/g, '')
StripColons(s) == SelectSeq(s, LAMBDA c : c # Colon)

RECURSIVE StripLeadingZeros(_)
StripLeadingZeros(s) ==
    IF Len(s) > 1 /\ Head(s) = 0 THEN StripLeadingZeros(Tail(s)) ELSE s

RECURSIVE HexDigits(_)
HexDigits(bytes) ==
    IF bytes = <<>> THEN <<>> ELSE HexByte(Head(bytes)) \o HexDigits(Tail(bytes))

\* Buffer.readUInt16LE(0); data is 1-indexed here
ReadUInt16BE(data) == data[1] * 256 + data[2]
ReadUInt16LE(data) == data[1] + data[2] * 256

\* Buffer.readUIntLE(offset, byteLength): the value is up to 48 bits wide, so
\* it is kept as its base-256 digits, most significant first
ReadUIntLE(data, offset, byteLength) ==
    [i \in 1..byteLength |-> data[offset + byteLength - i + 1]]

\* Number.prototype.toString(16) of a value given by its base-256 digits:
\* no leading zeros, "0" for zero
ToString16(digits) == StripLeadingZeros(HexDigits(digits))

(***************************************************************************)
(* Peripherals and advertisements.                                         *)
(***************************************************************************)
AddrA == <<170, 187, 204, 221, 238, 255>>   \* aa:bb:cc:dd:ee:ff
AddrB == <<17, 34, 51, 68, 85, 102>>        \* 11:22:33:44:55:66
AddrZ == <<10, 187, 204, 221, 238, 255>>    \* 0a:bb:cc:dd:ee:ff
NoAddr == <<>>                              \* a peripheral without an address

RECURSIVE JoinColon(_)
JoinColon(bytes) ==
    IF Len(bytes) = 0 THEN <<>>
    ELSE IF Len(bytes) = 1 THEN HexByte(bytes[1])
    ELSE HexByte(Head(bytes)) \o <<Colon>> \o JoinColon(Tail(bytes))

\* peripheral.address as noble reports it: lower-case hex, colon separated,
\* the empty string when the platform gives no address
PeripheralAddress(bytes) == JoinColon(bytes)

Reverse(s) == [i \in 1..Len(s) |-> s[Len(s) - i + 1]]

\* manufacturer data: company identifier, the address in little endian,
\* then n bytes of reading payload, cut to len bytes
MkData(company, embedded, n, len) ==
    SubSeq(company \o Reverse(embedded) \o [i \in 1..n |-> 1], 1, len)

CompanyLE == <<66, 72>>    \* 0x4842 in little endian
CompanyBE == <<72, 66>>    \* the same two bytes swapped

MkPeripheral(addr, company, embedded, n, len) ==
    [addr |-> addr, data |-> MkData(company, embedded, n, len)]

AllPeripherals ==
    \* well-formed frames from every kind of peripheral, with every embedded
    \* address
    { MkPeripheral(a, CompanyLE, e, n, HeaderLength + n) :
        a \in {AddrA, AddrB, AddrZ, NoAddr}, e \in {AddrA, AddrB, AddrZ},
        n \in {MaxPayload} }
    \cup
    \* shorter payloads, down to none (length 8)
    { MkPeripheral(a, CompanyLE, a, n, HeaderLength + n) :
        a \in {AddrA, AddrZ}, n \in 0..(MaxPayload - 1) }
    \cup
    \* frames of another company
    { MkPeripheral(a, CompanyBE, a, n, HeaderLength + n) :
        a \in {AddrA, AddrB}, n \in {1, MaxPayload} }
    \cup
    \* a frame cut inside its header
    { MkPeripheral(AddrA, CompanyLE, AddrA, 0, 1) }

\* the advertisements received during the scans of Spec: a well-formed one
\* from each of two devices and one of another company
Peripherals ==
    { MkPeripheral(AddrA, CompanyLE, AddrA, MaxPayload, HeaderLength + MaxPayload),
      MkPeripheral(AddrB, CompanyLE, AddrB, 1, HeaderLength + 1),
      MkPeripheral(AddrA, CompanyBE, AddrA, 1, HeaderLength + 1) }

\* the allowlists a caller passes, already normalised (lower case, no colons)
AllAllowlists ==
    { NoAddresses, Allowlist({HexDigits(AddrA)}), Allowlist({HexDigits(AddrZ)}),
      Allowlist({HexDigits(AddrA), HexDigits(AddrB)}) }

\* the allowlists of the scans of Spec
Allowlists == { NoAddresses, Allowlist({HexDigits(AddrA)}) }

\* Reading.parseReadings(payload): one reading per record of the payload
ParseReadings(payload) == [i \in 1..Len(payload) |-> [record |-> payload[i]]]

Slice(data, from) == SubSeq(data, from + 1, Len(data))

(***************************************************************************)
(* State.                                                                  *)
(***************************************************************************)
VARIABLES
    nobleState,     \* noble.state
    scanning,       \* the radio is scanning
    stopQueued,     \* noble.stopScanning was called: a scanStop event is due
    stopWaiters,    \* pending promises of ThermSmart.stopScan
    sessions,       \* the calls of scan / scanForReadings, in call order
    lastDiscover,   \* the discover event just delivered and who handled it
    sensorWait,     \* the promise of ThermSmartSensor.isPoweredOn
    probe,          \* FilterSpec: one advertisement and what its handler did
    pState,         \* peripheral.state
    conn,           \* the promise of the latest call of connect()
    reqs,           \* requests on the peripheral whose callback is due
    dl,             \* the once('disconnect') listeners on the peripheral
    chars,          \* this.writeCharacteristic, this.notifyCharacteristic
    radio,          \* noble's side of the link
    writes,         \* the calls of write(), in call order
    lastNotif,      \* the notification just delivered, and how many so far
    calc,           \* CodecSpec: one call of a codec function and its result
    platform,       \* PlatformSpec: this.scanTimeout and the armed timers
    sensor,         \* LegacySpec: the fields of a ThermSmartSensor
    loads,          \* LegacySpec: the calls of loadTemperatureData, in call order
    accessories,    \* AccessorySpec: this.accessories of the platform
    lastReading,    \* AccessorySpec: the reading just handled and how it ended
    cleaning        \* CleaningSpec: Date.now() and what the last tick unregistered

radioVars ==
    <<nobleState, scanning, stopQueued, stopWaiters, sessions, lastDiscover,
      sensorWait>>

sessionVars == <<pState, conn, reqs, dl, chars, radio, writes, lastNotif>>

codecVars == <<calc>>

platformVars == <<platform>>

\* the variables of the specifications that follow the first three
legacyVars == <<sensor, loads>>

homeVars == <<accessories, lastReading, cleaning>>

otherVars == <<codecVars, platformVars, legacyVars, homeVars>>

\* what the actions of the radio side leave alone
offRadio == <<probe, sessionVars, otherVars>>

\* what the actions of a ThermSmart instance leave alone
offSession == <<radioVars, probe, otherVars>>

vars == <<radioVars, probe, sessionVars, otherVars>>

States == {"poweredOn", "poweredOff", "unauthorized"}

NoDiscover ==
    [fired |-> FALSE, peripheral |-> [addr |-> <<>>, data |-> <<>>], calls |-> <<>>]

Kinds == {"readings", "devices"}
InFlight == {"powerOn", "starting", "scanning"}

(***************************************************************************)
(* ThermSmart.powerOn, as the first step of a scan session s.              *)
(***************************************************************************)
\* noble.startScanning([SERVICE_UUID], ..., callback) has been called
StartScanning(s) == [s EXCEPT !.phase = "starting"]

\* the call: resolved at once when the radio is on, else a timer and a
\* stateChange listener
PowerOn(s, state) ==
    IF state = "poweredOn"
    THEN StartScanning(s)
    ELSE [s EXCEPT !.phase = "powerOn", !.timer = TRUE, !.waitListener = TRUE]

\* the setTimeout callback of powerOn
PowerOnTimeoutHandler(s) ==
    [s EXCEPT !.timer = FALSE, !.waitListener = FALSE,
              !.phase = "rejected", !.err = "timeout"]

\* the stateChange handler of powerOn
PowerOnStateChangeHandler(s, state) ==
    IF state = "poweredOn"
    THEN StartScanning([s EXCEPT !.timer = FALSE, !.waitListener = FALSE])
    ELSE s

(***************************************************************************)
(* The handlers of scan and scanForReadings.                               *)
(***************************************************************************)
AllListeners == {"discover", "scanStop", "stateChange"}

\* the callback of noble.startScanning
StartScanningCallback(s, error) ==
    IF error
    THEN [s EXCEPT !.phase = "rejected", !.err = "startScanning"]
    ELSE [s EXCEPT !.phase = "scanning", !.listeners = AllListeners]

\* scanStopHandler: resolve() and nothing else; resolving a settled promise
\* changes nothing
ScanStopHandler(s) ==
    IF s.phase = "scanning" THEN [s EXCEPT !.phase = "resolved"] ELSE s

\* stateChangeHandler of scan and of scanForReadings
LeakyStateChangeHandler(s, state) ==
    IF state # "poweredOn"
    THEN IF s.phase = "scanning"
         THEN [s EXCEPT !.listeners = {"discover"}, !.phase = "rejected", !.err = state]
         ELSE [s EXCEPT !.listeners = {"discover"}]
    ELSE s
StateChangeHandler(s, state) ==
    IF state # "poweredOn"
    THEN IF s.phase = "scanning"
         THEN [s EXCEPT !.listeners = {}, !.phase = "rejected", !.err = state]
         ELSE [s EXCEPT !.listeners = {}]
    ELSE s

\* whether the handler calls noble.stopScanning()
StateChangeStops(s, state) == "stateChange" \in s.listeners /\ state # "poweredOn"

\* peripheral.address && peripheral.address.replace(/:/g, ''): the empty
\* string stands for every falsy address
StrippedAddress(p) == StripColons(PeripheralAddress(p.addr))

\* addresses && addresses.indexOf(address) === -1
NotAllowed(addresses, address) ==
    addresses.given /\ address \notin addresses.list

\* discoverHandler of scanForReadings: the number of times it calls
\* readingHandler for peripheral p
PassesFilter(p) ==
    LET data == p.data
        address == StrippedAddress(p)
    IN  /\ ~ (Len(data) < MinDataLength \/ ReadUInt16LE(data) # COMPANY_ID)
        /\ ~ (address # <<>> /\ ToString16(ReadUIntLE(data, 2, 6)) # address)

DiscoverHandler(s, p) ==
    IF ~ PassesFilter(p) THEN 0
    ELSE IF NotAllowed(s.addresses, StrippedAddress(p)) THEN 0
    ELSE Len(ParseReadings(Slice(p.data, HeaderLength)))

\* _discoverHandler of scan: 1 when the sensor is pushed and handed to the
\* caller's discoverHandler
DeviceDiscoverHandler(s, p) ==
    IF NotAllowed(s.addresses, StrippedAddress(p)) THEN 0 ELSE 1

HandlerCalls(s, p) ==
    IF "discover" \notin s.listeners THEN 0
    ELSE IF s.kind = "readings" THEN DiscoverHandler(s, p)
    ELSE DeviceDiscoverHandler(s, p)

NewSession(kind, addresses) ==
    [kind |-> kind, addresses |-> addresses, phase |-> "new", err |-> "none",
     listeners |-> {}, timer |-> FALSE, waitListener |-> FALSE]

(***************************************************************************)
(* Actions of the radio side.                                              *)
(***************************************************************************)
Idx == 1..Len(sessions)

\* a caller starts ThermSmart.scan or ThermSmart.scanForReadings; callers
\* start a scan only when no other is in flight
StartScan(kind, addresses) ==
    /\ Len(sessions) < MaxScans
    /\ \A i \in Idx : sessions[i].phase \notin InFlight
    /\ sessions' = Append(sessions, PowerOn(NewSession(kind, addresses), nobleState))
    /\ lastDiscover' = NoDiscover
    /\ UNCHANGED <<nobleState, scanning, stopQueued, stopWaiters, sensorWait>>
    /\ UNCHANGED offRadio

\* the 5000 ms timer of powerOn fires; an action named ...Radio is the part
\* of the action on the variables of the radio side
PowerOnTimeoutRadio(i) ==
    /\ sessions[i].timer
    /\ sessions' = [sessions EXCEPT ![i] = PowerOnTimeoutHandler(@)]
    /\ lastDiscover' = NoDiscover
    /\ UNCHANGED <<nobleState, scanning, stopQueued, stopWaiters, sensorWait>>

PowerOnTimeout(i) ==
    /\ PowerOnTimeoutRadio(i)
    /\ UNCHANGED offRadio

\* noble answers startScanning
StartScanningDoneRadio(i, error) ==
    /\ sessions[i].phase = "starting"
    /\ sessions' = [sessions EXCEPT ![i] = StartScanningCallback(@, error)]
    /\ scanning' = (scanning \/ ~ error)
    /\ lastDiscover' = NoDiscover
    /\ UNCHANGED <<nobleState, stopQueued, stopWaiters, sensorWait>>

StartScanningDone(i, error) ==
    /\ StartScanningDoneRadio(i, error)
    /\ UNCHANGED offRadio

\* stateChange handler of ThermSmartSensor.isPoweredOn
SensorStateChangeHandler(w, state) ==
    IF w.listener /\ state = "poweredOn"
    THEN [status |-> "resolved", listener |-> FALSE]
    ELSE w

\* noble emits stateChange: every registered handler runs
StateChangeRadio(state) ==
    /\ state # nobleState
    /\ nobleState' = state
    /\ sessions' =
         [i \in Idx |->
            LET s  == sessions[i]
                s1 == IF s.waitListener THEN PowerOnStateChangeHandler(s, state) ELSE s
            IN  IF "stateChange" \in s.listeners THEN StateChangeHandler(s1, state) ELSE s1]
    /\ stopQueued' = (stopQueued \/ \E i \in Idx : StateChangeStops(sessions[i], state))
    /\ sensorWait' = SensorStateChangeHandler(sensorWait, state)
    /\ lastDiscover' = NoDiscover
    /\ UNCHANGED <<scanning, stopWaiters>>

StateChange(state) ==
    /\ StateChangeRadio(state)
    /\ UNCHANGED offRadio

\* noble emits discover for an advertisement received while scanning
Discover(p) ==
    /\ scanning
    /\ lastDiscover' =
         [fired |-> TRUE, peripheral |-> p, calls |-> [i \in Idx |-> HandlerCalls(sessions[i], p)]]
    /\ UNCHANGED <<nobleState, scanning, stopQueued, stopWaiters, sessions, sensorWait>>
    /\ UNCHANGED offRadio

\* ThermSmart.stopScan()
StopScanRadio ==
    /\ stopWaiters < MaxStops
    /\ stopWaiters' = stopWaiters + 1
    /\ stopQueued' = TRUE
    /\ lastDiscover' = NoDiscover
    /\ UNCHANGED <<nobleState, scanning, sessions, sensorWait>>

StopScan ==
    /\ StopScanRadio
    /\ UNCHANGED offRadio

\* noble emits scanStop: the scanStop handlers run and the callbacks of
\* noble.stopScanning resolve the promises of stopScan
ScanStopRadio ==
    /\ stopQueued
    /\ stopQueued' = FALSE
    /\ scanning' = FALSE
    /\ stopWaiters' = 0
    /\ sessions' =
         [i \in Idx |->
            IF "scanStop" \in sessions[i].listeners
            THEN ScanStopHandler(sessions[i]) ELSE sessions[i]]
    /\ lastDiscover' = NoDiscover
    /\ UNCHANGED <<nobleState, sensorWait>>

ScanStop ==
    /\ ScanStopRadio
    /\ UNCHANGED offRadio

\* ThermSmartSensor.isPoweredOn()
IsPoweredOn ==
    /\ sensorWait.status # "pending"
    /\ sensorWait' =
         IF nobleState = "poweredOn"
         THEN [status |-> "resolved", listener |-> FALSE]
         ELSE [status |-> "pending", listener |-> TRUE]
    /\ lastDiscover' = NoDiscover
    /\ UNCHANGED <<nobleState, scanning, stopQueued, stopWaiters, sessions>>
    /\ UNCHANGED offRadio

RadioInit ==
    /\ nobleState \in {"poweredOn", "poweredOff"}
    /\ scanning = FALSE
    /\ stopQueued = FALSE
    /\ stopWaiters = 0
    /\ sessions = <<>>
    /\ lastDiscover = NoDiscover
    /\ sensorWait = [status |-> "idle", listener |-> FALSE]

(***************************************************************************)
(* One ThermSmart instance (a Device Session).                             *)
(*                                                                         *)
(* A characteristic handle is the number of the discovery that created it  *)
(* (noble makes new Characteristic objects at every discovery), 0 when the *)
(* field is undefined. A notification payload is <<byte 0, serial>>.       *)
(* The radio may deliver a disconnect event at any point of an operation   *)
(* in flight; once the link is gone it answers no request made on it.      *)
(***************************************************************************)
ConnectInFlight == {"connecting", "discovering", "subscribing"}

\* the response code readTime and syncTime await (0xd1), and null, which
\* identify passes
TIME_RESPONSE == 209
NoResponse == -1
ResponseCommands == {TIME_RESPONSE, NoResponse}

\* byte 0 of the notifications the device sends: the answer to the time
\* commands and the answer to the get-temperature command (0xd2)
GET_TEMPERATURE_COMMAND == 210
NotificationCodes == {TIME_RESPONSE, GET_TEMPERATURE_COMMAND}

\* what characteristics.find(...) yields for a discovery result
Found == {"both", "noWrite", "noNotify"}
WriteHandle(found, gen) == IF found = "noWrite" THEN 0 ELSE gen
NotifyHandle(found, gen) == IF found = "noNotify" THEN 0 ELSE gen

NewConn(status) ==
    [status |-> status, err |-> "none", emitted |-> FALSE, dropped |-> "none"]

\* reject(error) on the promise of connect(): a settled promise stays as it is
RejectConn(c, error) ==
    IF c.status \in ConnectInFlight
    THEN [c EXCEPT !.status = "rejected", !.err = error]
    ELSE c

\* receivedData[0] === responseCommand, in dataHandler of write
AnyDataMatches(receivedData, responseCommand) == TRUE
DataMatches(receivedData, responseCommand) == receivedData[1] = responseCommand

\* dataHandler of write, for the call w; heard counts its invocations
DataHandler(w, receivedData) ==
    IF DataMatches(receivedData, w.rc)
    THEN IF w.status = "pending"
         THEN [w EXCEPT !.on = 0, !.status = "resolved", !.value = receivedData,
                        !.heard = @ + 1]
         ELSE [w EXCEPT !.on = 0, !.heard = @ + 1]
    ELSE [w EXCEPT !.heard = @ + 1]

NoValue == <<>>

\* a write that issues the radio write without registering dataHandler
DeafWriteCall(rc) ==
    LET w0 == [rc |-> rc, status |-> "pending", err |-> "none", value |-> NoValue,
               on |-> 0, ack |-> FALSE, heard |-> 0]
    IN  IF chars.write = 0
        THEN [w0 EXCEPT !.status = "rejected", !.err = "TypeError"]
        ELSE [w0 EXCEPT !.ack = TRUE]
\* the body of write(data, responseCommand) up to the return of
\* writeCharacteristic.write: a TypeError thrown in the executor rejects
WriteCall(rc) ==
    LET w0 == [rc |-> rc, status |-> "pending", err |-> "none", value |-> NoValue,
               on |-> 0, ack |-> FALSE, heard |-> 0]
    IN  IF rc # NoResponse /\ chars.notify = 0
        THEN [w0 EXCEPT !.status = "rejected", !.err = "TypeError"]
        ELSE LET w1 == IF rc # NoResponse
                       THEN [w0 EXCEPT !.on = chars.notify]
                       ELSE w0
             IN  IF chars.write = 0
                 THEN [w1 EXCEPT !.status = "rejected", !.err = "TypeError"]
                 ELSE [w1 EXCEPT !.ack = TRUE]

\* the callback of writeCharacteristic.write
ForgetfulWriteCallback(w, error) ==
    IF error
    THEN IF w.status = "pending"
         THEN [w EXCEPT !.ack = FALSE, !.status = "rejected", !.err = "write"]
         ELSE [w EXCEPT !.ack = FALSE]
    ELSE IF w.rc = NoResponse /\ w.status = "pending"
         THEN [w EXCEPT !.ack = FALSE, !.status = "resolved"]
         ELSE [w EXCEPT !.ack = FALSE]
WriteCallback(w, error) ==
    IF error
    THEN IF w.status = "pending"
         THEN [w EXCEPT !.ack = FALSE, !.on = 0, !.status = "rejected", !.err = "write"]
         ELSE [w EXCEPT !.ack = FALSE, !.on = 0]
    ELSE IF w.rc = NoResponse /\ w.status = "pending"
         THEN [w EXCEPT !.ack = FALSE, !.status = "resolved"]
         ELSE [w EXCEPT !.ack = FALSE]

WIdx == 1..Len(writes)

\* _getCharacteristics(): a once('disconnect') listener and a discovery
GetCharacteristics ==
    /\ dl' = dl \cup {"getCharacteristics"}
    /\ reqs' = (reqs \ {"connect"}) \cup {"discover"}

\* connect()
Connect ==
    /\ radio.gen < MaxDiscoveries
    /\ conn.status \notin ConnectInFlight
    /\ IF pState = "connected"
       THEN /\ conn' = NewConn("discovering")
            /\ GetCharacteristics
            /\ UNCHANGED pState
       ELSE /\ conn' = NewConn("connecting")
            /\ pState' = "connecting"
            /\ reqs' = reqs \cup {"connect"}
            /\ UNCHANGED dl
    /\ lastNotif' = [lastNotif EXCEPT !.fired = FALSE]
    /\ UNCHANGED <<chars, radio, writes>>
    /\ UNCHANGED offSession

\* the callback of peripheral.connect
ConnectDone(error) ==
    /\ "connect" \in reqs
    /\ IF error
       THEN /\ pState' = "disconnected"
            /\ conn' = RejectConn(conn, "connect")
            /\ reqs' = reqs \ {"connect"}
            /\ UNCHANGED dl
       ELSE /\ pState' = "connected"
            /\ conn' = [conn EXCEPT !.status = "discovering"]
            /\ GetCharacteristics
    /\ lastNotif' = [lastNotif EXCEPT !.fired = FALSE]
    /\ UNCHANGED <<chars, radio, writes>>
    /\ UNCHANGED offSession

\* the callback of peripheral.discoverSomeServicesAndCharacteristics, and
\* _setupListeners() when it resolves the promise of _getCharacteristics; the
\* discovery replaces noble's characteristic objects, so a write callback
\* registered on an earlier object is never invoked
DiscoverDone(error, found) ==
    /\ "discover" \in reqs
    /\ IF error
       THEN /\ conn' = RejectConn(conn, "discover")
            /\ dl' = dl \ {"getCharacteristics"}
            /\ reqs' = reqs \ {"discover"}
            /\ UNCHANGED <<chars, radio, writes>>
       ELSE LET gen == radio.gen + 1
            IN  /\ chars' = [write |-> WriteHandle(found, gen),
                             notify |-> NotifyHandle(found, gen)]
                /\ writes' = [k \in WIdx |-> [writes[k] EXCEPT !.ack = FALSE]]
                /\ radio' = [radio EXCEPT !.gen = gen, !.notify = NotifyHandle(found, gen)]
                /\ dl' = (dl \ {"getCharacteristics"}) \cup {"setupListeners"}
                /\ IF NotifyHandle(found, gen) = 0
                   THEN \* this.notifyCharacteristic.subscribe throws
                        /\ conn' = RejectConn(conn, "TypeError")
                        /\ reqs' = reqs \ {"discover"}
                   ELSE /\ conn' = [conn EXCEPT !.status = "subscribing"]
                        /\ reqs' = (reqs \ {"discover"}) \cup {"subscribe"}
    /\ lastNotif' = [lastNotif EXCEPT !.fired = FALSE]
    /\ UNCHANGED pState
    /\ UNCHANGED offSession

\* the callback of notifyCharacteristic.subscribe, and the end of connect()
SubscribeDone(error) ==
    /\ "subscribe" \in reqs
    /\ reqs' = reqs \ {"subscribe"}
    /\ dl' = dl \ {"setupListeners"}
    /\ IF error
       THEN /\ conn' = RejectConn(conn, "subscribe")
            /\ UNCHANGED radio
       ELSE /\ conn' = [conn EXCEPT !.status = "resolved", !.emitted = TRUE]
            /\ radio' = [radio EXCEPT !.subscribed = TRUE]
    /\ lastNotif' = [lastNotif EXCEPT !.fired = FALSE]
    /\ UNCHANGED <<pState, chars, writes>>
    /\ UNCHANGED offSession

\* the disconnect handlers of _getCharacteristics and _setupListeners
DisconnectHandlers(c, listeners) ==
    IF listeners # {} THEN RejectConn(c, "disconnect") ELSE c

\* the peripheral emits disconnect
Disconnect ==
    /\ pState \in {"connecting", "connected"}
    /\ pState' = "disconnected"
    /\ conn' = [DisconnectHandlers(conn, dl) EXCEPT
                  !.dropped = IF conn.status \in ConnectInFlight
                              THEN conn.status ELSE @]
    /\ dl' = {}
    /\ reqs' = {}
    /\ radio' = [radio EXCEPT !.subscribed = FALSE]
    /\ writes' = [k \in WIdx |-> [writes[k] EXCEPT !.ack = FALSE]]
    /\ lastNotif' = [lastNotif EXCEPT !.fired = FALSE]
    /\ UNCHANGED <<chars>>
    /\ UNCHANGED offSession

\* the precondition of write: connect() has resolved and the link is up
Ready == conn.status = "resolved" /\ pState = "connected"

\* write(data, responseCommand): readTime and syncTime await 0xd1, identify
\* awaits nothing; callers write to a session that is Ready
Write(rc) ==
    /\ Ready
    /\ Len(writes) < MaxWrites
    /\ writes' = Append(writes, WriteCall(rc))
    /\ lastNotif' = [lastNotif EXCEPT !.fired = FALSE]
    /\ UNCHANGED <<pState, conn, reqs, dl, chars, radio>>
    /\ UNCHANGED offSession

\* the radio answers writeCharacteristic.write
WriteDone(k, error) ==
    /\ writes[k].ack
    /\ writes' = [writes EXCEPT ![k] = WriteCallback(@, error)]
    /\ lastNotif' = [lastNotif EXCEPT !.fired = FALSE]
    /\ UNCHANGED <<pState, conn, reqs, dl, chars, radio>>
    /\ UNCHANGED offSession

\* the notify characteristic emits data: the handlers registered on it run
Notify(code) ==
    /\ lastNotif.count < MaxNotifs
    /\ pState = "connected"
    /\ radio.subscribed
    /\ radio.notify # 0
    /\ LET receivedData == <<code, lastNotif.count + 1>>
       IN  /\ lastNotif' = [fired |-> TRUE, data |-> receivedData,
                            on |-> radio.notify, count |-> lastNotif.count + 1]
           /\ writes' = [k \in WIdx |->
                           IF writes[k].on = radio.notify
                           THEN DataHandler(writes[k], receivedData)
                           ELSE writes[k]]
    /\ UNCHANGED <<pState, conn, reqs, dl, chars, radio>>
    /\ UNCHANGED offSession

SessionInit ==
    /\ pState = "disconnected"
    /\ conn = NewConn("idle")
    /\ reqs = {}
    /\ dl = {}
    /\ chars = [write |-> 0, notify |-> 0]
    /\ radio = [gen |-> 0, notify |-> 0, subscribed |-> FALSE]
    /\ writes = <<>>
    /\ lastNotif = [fired |-> FALSE, data |-> <<0, 0>>, on |-> 0, count |-> 0]

\* the value of probe outside FilterSpec
NoProbe ==
    [peripheral |-> [addr |-> <<>>, data |-> <<>>], kind |-> "readings",
     addresses |-> NoAddresses, calls |-> 0, done |-> FALSE]

\* the value of calc outside CodecSpec
NoCalc == [op |-> "none", arg |-> 0, out |-> 0, done |-> FALSE]

\* a timer handle: the kind of the timer and the call of scan() that set it;
\* NoTimer is null
NoTimer == [kind |-> "none", cycle |-> 0]

\* the platform after its constructor
NewPlatform == [launched |-> FALSE, scanTimeout |-> NoTimer, timers |-> {}]

\* a ThermSmartSensor after its constructor: no peripheral, no handles, no
\* cached payload; listening says that handleDisconnect is registered on the
\* peripheral
NoData == <<>>

NewSensor ==
    [peripheral |-> FALSE, write |-> 0, notify |-> 0, temperatureData |-> NoData,
     listening |-> FALSE]

\* time 0, no cleaning tick yet
NoCleaning == [now |-> 0, ticked |-> FALSE, unregistered |-> <<>>]

\* no reading handled yet
NoReading ==
    [handled |-> FALSE, sensor |-> "", type |-> "", address |-> "", threw |-> FALSE]

OtherIdle ==
    /\ calc = NoCalc
    /\ platform = NewPlatform
    /\ sensor = NewSensor
    /\ loads = <<>>
    /\ accessories = <<>>
    /\ lastReading = NoReading
    /\ cleaning = NoCleaning

Init == RadioInit /\ probe = NoProbe /\ SessionInit /\ OtherIdle

Next ==
    \/ \E k \in Kinds, a \in Allowlists : StartScan(k, a)
    \/ \E i \in Idx : PowerOnTimeout(i)
    \/ \E i \in Idx, e \in BOOLEAN : StartScanningDone(i, e)
    \/ \E s \in States : StateChange(s)
    \/ \E p \in Peripherals : Discover(p)
    \/ StopScan
    \/ ScanStop
    \/ IsPoweredOn

Spec == Init /\ [][Next]_vars

\* the event loop fires every armed timer
FairSpec ==
    Spec /\ \A i \in 1..MaxScans : WF_vars(i \in Idx /\ PowerOnTimeout(i))

(***************************************************************************)
(* FilterSpec: the discover handlers as functions of one advertisement.    *)
(* A scan that has registered its listeners receives one discover event,   *)
(* for every peripheral of AllPeripherals and every allowlist.             *)
(***************************************************************************)
ListeningSession(kind, addresses) ==
    StartScanningCallback(StartScanning(NewSession(kind, addresses)), FALSE)

ProbeDiscover ==
    /\ ~ probe.done
    /\ probe' = [probe EXCEPT
                   !.done = TRUE,
                   !.calls = HandlerCalls(ListeningSession(probe.kind, probe.addresses),
                                          probe.peripheral)]
    /\ UNCHANGED <<radioVars, sessionVars, otherVars>>

FilterInit ==
    /\ RadioInit
    /\ nobleState = "poweredOn"
    /\ probe \in [peripheral : AllPeripherals, kind : Kinds,
                   addresses : AllAllowlists, calls : {0}, done : {FALSE}]
    /\ SessionInit
    /\ OtherIdle

FilterNext == ProbeDiscover

FilterSpec == FilterInit /\ [][FilterNext]_vars

(***************************************************************************)
(* SessionSpec: one ThermSmart instance and its peripheral.                *)
(***************************************************************************)
SessionSpecInit ==
    /\ RadioInit
    /\ nobleState = "poweredOn"
    /\ probe = NoProbe
    /\ SessionInit
    /\ OtherIdle

SessionNext ==
    \/ Connect
    \/ \E e \in BOOLEAN : ConnectDone(e)
    \/ \E e \in BOOLEAN, f \in Found : DiscoverDone(e, f)
    \/ \E e \in BOOLEAN : SubscribeDone(e)
    \/ Disconnect
    \/ \E rc \in ResponseCommands : Write(rc)
    \/ \E k \in WIdx, e \in BOOLEAN : WriteDone(k, e)
    \/ \E c \in NotificationCodes : Notify(c)

SessionSpec == SessionSpecInit /\ [][SessionNext]_vars

(***************************************************************************)
(* Claims about the radio side.                                            *)
(***************************************************************************)

\* C4: a scan ended by cancellation (scanStop) has deregistered all its
\* listeners by the time its promise is resolved, so that a later
\* advertisement is handled by the scan in progress and by no earlier one.
C4_CancelledScanDeregisters ==
    /\ \A i \in Idx : sessions[i].phase = "resolved" => sessions[i].listeners = {}
    /\ lastDiscover.fired =>
         \A i \in Idx : lastDiscover.calls[i] > 0 => sessions[i].phase = "scanning"

\* C5: when the radio leaves poweredOn during an active scan, the scan's
\* three listeners are removed, noble.stopScanning is called and the promise
\* rejects with the new state; a scan rejected this way has no listener and
\* its handler takes no further advertisement.
StateChangeRejected(s) == s.phase = "rejected" /\ s.err \in States

C5_StateChangeTearsDownScan ==
    /\ [][\A i \in Idx :
            (nobleState' # nobleState /\ nobleState' # "poweredOn"
               /\ sessions[i].phase = "scanning")
            => /\ sessions'[i].phase = "rejected"
               /\ sessions'[i].err = nobleState'
               /\ sessions'[i].listeners = {}
               /\ stopQueued']_vars
    /\ [](\A i \in Idx :
            StateChangeRejected(sessions[i])
            => /\ sessions[i].listeners = {}
               /\ lastDiscover.fired => lastDiscover.calls[i] = 0)

\* an advertisement arrives after a scan was rejected by a state change
C5_Witness ==
    /\ lastDiscover.fired
    /\ \E i \in Idx : StateChangeRejected(sessions[i])

\* the company identifier of a frame, read from its first two bytes
CompanyOf(data) == data[1] + 256 * data[2]

\* C6: a frame shorter than 9 bytes, or of another company than 0x4842,
\* never reaches the reading handler of scanForReadings.
C6_ShortOrForeignNeverRead ==
    (/\ probe.done
     /\ probe.kind = "readings"
     /\ \/ Len(probe.peripheral.data) < 9
        \/ CompanyOf(probe.peripheral.data) # 18498)
    => probe.calls = 0

\* a 9-byte frame of another company, from a device the scan accepts, was
\* handled
C6_Witness ==
    /\ probe.done
    /\ probe.kind = "readings"
    /\ Len(probe.peripheral.data) >= 9
    /\ CompanyOf(probe.peripheral.data) # 18498
    /\ ~ probe.addresses.given
    /\ probe.calls = 0

\* a frame of the wire format: at least 9 bytes, company 0x4842, and the
\* sending peripheral's own address in bytes 2..7, little endian
EmbeddedAddress(data) == Reverse(SubSeq(data, 3, 8))

WellFormed(p) ==
    /\ Len(p.data) >= 9
    /\ CompanyOf(p.data) = 18498
    /\ p.addr # NoAddr
    /\ EmbeddedAddress(p.data) = p.addr

\* C7: with an allowlist, the reading handler runs only for peripherals
\* whose colon-stripped address is listed, and every well-formed frame of a
\* listed peripheral yields its reading callbacks, one per decoded reading.
C7_AllowlistExact ==
    (probe.done /\ probe.kind = "readings" /\ probe.addresses.given)
    => /\ probe.calls > 0
            => StripColons(PeripheralAddress(probe.peripheral.addr))
                  \in probe.addresses.list
       /\ (/\ WellFormed(probe.peripheral)
           /\ StripColons(PeripheralAddress(probe.peripheral.addr))
                  \in probe.addresses.list)
            => probe.calls = Len(probe.peripheral.data) - 8

\* C8: among frames of the right length and company, with readings to
\* deliver and no allowlist, the reading handler runs exactly for those
\* whose peripheral has an address equal to the one in bytes 2..7.
C8_AddressCrossCheck ==
    (/\ probe.done
     /\ probe.kind = "readings"
     /\ ~ probe.addresses.given
     /\ Len(probe.peripheral.data) >= 9
     /\ CompanyOf(probe.peripheral.data) = 18498)
    => (probe.calls > 0
          <=> /\ probe.peripheral.addr # NoAddr
              /\ EmbeddedAddress(probe.peripheral.data) = probe.peripheral.addr)

\* C9: every wait for the radio settles: a pending wait of ThermSmart.powerOn
\* and a pending wait of ThermSmartSensor.isPoweredOn both end, and a settled
\* wait has neither its timer armed nor its stateChange listener registered.
C9_RadioWaitSettles ==
    /\ \A i \in 1..MaxScans :
         (i \in Idx /\ sessions[i].phase = "powerOn")
            ~> (i \in Idx /\ sessions[i].phase # "powerOn")
    /\ (sensorWait.status = "pending") ~> (sensorWait.status # "pending")
    /\ [](\A i \in Idx :
            sessions[i].phase # "powerOn"
               => ~ sessions[i].timer /\ ~ sessions[i].waitListener)
    /\ [](sensorWait.status # "pending" => ~ sensorWait.listener)

(***************************************************************************)
(* Claims about a ThermSmart instance.                                     *)
(***************************************************************************)
Awaiting(w) == w.rc # NoResponse /\ w.status = "pending"

\* in this step a notification is delivered on the characteristic call k
\* listens on
Delivered(k) ==
    /\ lastNotif'.count = lastNotif.count + 1
    /\ writes[k].on # 0
    /\ writes[k].on = lastNotif'.on

\* C1: write(data, X) resolves with the first notification whose byte 0 is
\* X, delivered while it waits, and with no other payload; a notification
\* with another byte 0 neither resolves nor rejects it.
C1_ResolvesWithFirstMatch ==
    /\ [][\A k \in WIdx :
            /\ (Awaiting(writes[k]) /\ Delivered(k)
                  /\ lastNotif'.data[1] = writes[k].rc)
               => /\ writes'[k].status = "resolved"
                  /\ writes'[k].value = lastNotif'.data
            /\ (Awaiting(writes[k]) /\ Delivered(k)
                  /\ lastNotif'.data[1] # writes[k].rc)
               => /\ writes'[k].status = "pending"
                  /\ writes'[k].on = writes[k].on
            /\ (Awaiting(writes[k]) /\ writes'[k].status = "resolved")
               => /\ Delivered(k)
                  /\ lastNotif'.data[1] = writes[k].rc
            /\ (writes[k].rc # NoResponse /\ writes[k].status = "resolved")
               => /\ writes'[k].status = "resolved"
                  /\ writes'[k].value = writes[k].value]_vars
    /\ [](\A k \in WIdx :
            (writes[k].rc # NoResponse /\ writes[k].status = "resolved")
               => writes[k].value[1] = writes[k].rc)

\* a call awaiting 0xd1 heard two notifications and resolved with the second
C1_Witness ==
    \E k \in WIdx :
        /\ writes[k].rc = TIME_RESPONSE
        /\ writes[k].status = "resolved"
        /\ writes[k].heard = 2
        /\ writes[k].value = <<TIME_RESPONSE, 2>>

\* C2: a disconnect of the peripheral while a write awaits its response
\* fails that await with the unexpected-disconnect error.
C2_DisconnectFailsPendingAwait ==
    [][(pState = "connected" /\ pState' = "disconnected")
         => \A k \in WIdx :
                Awaiting(writes[k])
                   => /\ writes'[k].status = "rejected"
                      /\ writes'[k].err = "disconnect"]_vars

\* C3: a disconnect that arrives while connect() is in flight, in any of
\* its three phases, rejects its promise with the unexpected-disconnect
\* error, and connected is not emitted.
C3_DisconnectCancelsConnect ==
    conn.dropped \in ConnectInFlight
       => /\ conn.status = "rejected"
          /\ conn.err = "disconnect"
          /\ ~ conn.emitted

\* the calls a step resolves
ResolvedNow ==
    { k \in WIdx : Awaiting(writes[k]) /\ writes'[k].status = "resolved" }

\* C10: one notification resolves at most one call of write, and the call
\* it resolves is the most recently issued of those awaiting a response.
C10_OneCallPerNotification ==
    [][/\ Cardinality(ResolvedNow) <= 1
       /\ \A k \in ResolvedNow :
            \A j \in WIdx : Awaiting(writes[j]) => j <= k]_vars

\* C11: when the write callback reports an error to a call that is still
\* pending, the call's data listener is removed and the promise rejects with
\* that error in the same step; from then on the call stays rejected, has no
\* listener and hears no notification.
WriteFailed(w) == w.status = "rejected" /\ w.err = "write"

C11_WriteFailureUnwinds ==
    /\ [][\A k \in WIdx :
            (WriteDone(k, TRUE) /\ writes[k].status = "pending")
               => /\ WriteFailed(writes'[k])
                  /\ writes'[k].on = 0]_vars
    /\ [][\A k \in WIdx :
            WriteFailed(writes[k])
               => /\ WriteFailed(writes'[k])
                  /\ writes'[k].on = 0
                  /\ writes'[k].heard = writes[k].heard
                  /\ writes'[k].value = NoValue]_vars

\* a notification bearing the awaited code is delivered on the session of a
\* call that the write error had rejected
C11_Witness ==
    /\ lastNotif.fired
    /\ \E k \in WIdx :
          /\ WriteFailed(writes[k])
          /\ writes[k].rc = lastNotif.data[1]
          /\ lastNotif.on = chars.notify

\* C12: connect() on a session that is Ready resolves at once, issues no
\* request on the peripheral (no connect, no discovery, no subscribe) and
\* leaves the characteristic handles as they are.
C12_ConnectIdempotent ==
    [][(Ready /\ Connect)
         => /\ conn'.status = "resolved"
            /\ reqs' = reqs
            /\ chars' = chars
            /\ radio' = radio]_vars

\* C13: a discovery that succeeds without the write or without the notify
\* characteristic rejects the promise of connect() in that step, and a
\* connect() that has resolved or has emitted connected holds both handles.
C13_MissingCharacteristicRejects ==
    /\ [][\A f \in Found \ {"both"} :
            (conn.status = "discovering" /\ DiscoverDone(FALSE, f))
               => /\ conn'.status = "rejected"
                  /\ ~ conn'.emitted]_vars
    /\ []((conn.status = "resolved" \/ conn.emitted)
             => (chars.write # 0 /\ chars.notify # 0))

\* C14: every disconnect clears the write and notify handles of the session,
\* and a write is issued only on the write handle of the latest discovery.
NoHandles == [write |-> 0, notify |-> 0]

C14_DisconnectClearsHandles ==
    /\ [][(pState = "connected" /\ pState' = "disconnected")
            => chars' = NoHandles]_vars
    /\ [][\A rc \in ResponseCommands :
            (Write(rc) /\ writes'[Len(writes')].ack) => chars.write = radio.gen]_vars

(***************************************************************************)
(* CodecSpec: the byte codecs as functions of one argument.                *)
(*                                                                         *)
(* A byte is a number in 0..255.  JavaScript's bitwise operators work on   *)
(* 32-bit integers; the arguments here are below 256, far from the width,  *)
(* so x << 4 is 16 x, x >> 4 is x \div 16 and & masks bits.                *)
(***************************************************************************)
\* ToInt32 of a non-negative quotient i / d: the fraction is dropped
ToInt32(i, d) == i \div d

ShiftLeft4(x) == x * 16

\* b & 0xf0 and b & 0xf
AndF0(b) == ((b \div 16) % 16) * 16
AndF(b) == b % 16

\* a decoder that takes the byte at its binary value
byteToInt(b) == AndF0(b) + AndF(b)
bcdByteToInt(b) == ((AndF0(b) \div 16) * 10) + AndF(b)

intToBCDByte(i) == ShiftLeft4(ToInt32(i, 10)) + (i % 10)

\* Buffer.toString('hex', position, position + 1): the two hex digits of the
\* byte, as a string of characters 0..15
ToHexString(b) == HexByte(b)

\* parseInt(string) with no radix: the value of the longest prefix of
\* decimal digits, NaN when there is none
NaN == -1

RECURSIVE DecimalPrefix(_)
DecimalPrefix(s) ==
    IF s = <<>> \/ Head(s) > 9 THEN <<>> ELSE <<Head(s)>> \o DecimalPrefix(Tail(s))

RECURSIVE DecimalValue(_)
DecimalValue(s) ==
    IF s = <<>> THEN 0 ELSE DecimalValue(SubSeq(s, 1, Len(s) - 1)) * 10 + s[Len(s)]

\* parseInt taken as parsing the whole string in base 16
ParseIntHex(s) == s[1] * 16 + s[2]
ParseInt(s) ==
    IF DecimalPrefix(s) = <<>> THEN NaN ELSE DecimalValue(DecimalPrefix(s))

readRelativeHumidity(b) == ParseInt(ToHexString(b))

\* bcdByteToInt(intToBCDByte(n)) is computed
BcdRoundTrip ==
    /\ calc.op = "bcd"
    /\ ~ calc.done
    /\ calc' = [calc EXCEPT !.out = bcdByteToInt(intToBCDByte(calc.arg)), !.done = TRUE]
    /\ UNCHANGED <<radioVars, probe, sessionVars, platformVars, legacyVars, homeVars>>

\* readRelativeHumidity(data, position) is computed for the byte at position
ReadRelativeHumidity ==
    /\ calc.op = "humidity"
    /\ ~ calc.done
    /\ calc' = [calc EXCEPT !.out = readRelativeHumidity(calc.arg), !.done = TRUE]
    /\ UNCHANGED <<radioVars, probe, sessionVars, platformVars, legacyVars, homeVars>>

CodecInit ==
    /\ RadioInit
    /\ nobleState = "poweredOn"
    /\ probe = NoProbe
    /\ SessionInit
    /\ calc \in [op : {"bcd"}, arg : 0..99, out : {0}, done : {FALSE}]
                \cup [op : {"humidity"}, arg : 0..255, out : {0}, done : {FALSE}]
    /\ platform = NewPlatform
    /\ sensor = NewSensor
    /\ loads = <<>>
    /\ accessories = <<>>
    /\ lastReading = NoReading
    /\ cleaning = NoCleaning

CodecNext == BcdRoundTrip \/ ReadRelativeHumidity

CodecSpec == CodecInit /\ [][CodecNext]_vars

(***************************************************************************)
(* Claims about the codecs.                                                *)
(***************************************************************************)

\* C15: for every n in 0..99, intToBCDByte(n) is the byte 16 * floor(n / 10)
\* + n mod 10 and bcdByteToInt(intToBCDByte(n)) = n.
C15_BcdRoundTrip ==
    (calc.op = "bcd" /\ calc.arg \in 0..99)
    => /\ intToBCDByte(calc.arg) = 16 * (calc.arg \div 10) + (calc.arg % 10)
       /\ calc.done => calc.out = calc.arg

\* the round trip of 99 was computed
C15_Witness == calc.op = "bcd" /\ calc.done /\ calc.arg = 99 /\ calc.out = 99

\* C16 as stated: byte 0x34 decodes to 34 and byte 0x2C decodes to 28.
C16_HumidityAsStated ==
    (calc.op = "humidity" /\ calc.done)
    => /\ calc.arg = 52 => calc.out = 34
       /\ calc.arg = 44 => calc.out = 28

\* C16, amended: readRelativeHumidity reads the two hex digits of the byte as
\* a base-10 number as far as they are decimal digits: d1 d2 gives 10 d1 + d2
\* (0x34 gives 34), a second digit above 9 is dropped (0x2C gives 2, neither
\* 28 nor 44), and a first digit above 9 gives NaN.
C16_HumidityDecimalPrefix ==
    (calc.op = "humidity" /\ calc.done)
    => LET d1 == calc.arg \div 16
           d2 == calc.arg % 16
       IN  /\ (d1 <= 9 /\ d2 <= 9) => calc.out = 10 * d1 + d2
           /\ (d1 <= 9 /\ d2 > 9) => calc.out = d1
           /\ d1 > 9 => calc.out = -1
           /\ calc.arg = 52 => calc.out = 34
           /\ calc.arg = 44 => calc.out = 2

\* byte 0x2C was decoded
C16_Witness ==
    calc.op = "humidity" /\ calc.done /\ calc.arg = 44 /\ calc.out = 2

(***************************************************************************)
(* PlatformSpec: the scan cycle of ThermSmartPlatform on the radio side.   *)
(*                                                                         *)
(* Every call of scan() makes one scan session; its number is the cycle.   *)
(* A timer is named by its kind and the cycle that set it.  The scan       *)
(* window (config.scanTime) is the caller's choice, so no order is         *)
(* assumed between the firing of a stop timer and of the other timers.     *)
(***************************************************************************)
StopTimerOf(cycle) == [kind |-> "stop", cycle |-> cycle]
RescanTimerOf(cycle) == [kind |-> "rescan", cycle |-> cycle]

\* clearTimeout(handle): nothing happens for null or for a timer that fired
ClearTimeout(timers, handle) == timers \ {handle}

Settled(s) == s.phase \in {"resolved", "rejected"}

\* the sessions whose promise settles in this step
NewlySettled == { i \in Idx : ~ Settled(sessions[i]) /\ Settled(sessions'[i]) }

Max(S) == CHOOSE x \in S : \A y \in S : y <= x

\* the .catch(...).then(...) continuation of scan(), for the settled cycles
ScanSettled(pl, cycles) ==
    IF cycles = {} THEN pl
    ELSE LET timers1 == IF pl.scanTimeout = NoTimer
                        THEN ClearTimeout(pl.timers, pl.scanTimeout)
                        ELSE pl.timers
         IN  [pl EXCEPT !.scanTimeout = RescanTimerOf(Max(cycles)),
                        !.timers = timers1 \cup { RescanTimerOf(c) : c \in cycles }]

\* the body of scan(), with the timers armed before the call
PlatformScan(armed) ==
    LET cycle == Len(sessions) + 1
        timers1 == IF platform.scanTimeout # NoTimer
                   THEN ClearTimeout(armed, platform.scanTimeout)
                   ELSE armed
    IN  /\ Len(sessions) < MaxScans
        /\ platform' = [launched |-> TRUE, scanTimeout |-> StopTimerOf(cycle),
                        timers |-> timers1 \cup {StopTimerOf(cycle)}]
        /\ sessions' = Append(sessions, PowerOn(NewSession("readings", NoAddresses), nobleState))
        /\ lastDiscover' = NoDiscover
        /\ UNCHANGED <<nobleState, scanning, stopQueued, stopWaiters, sensorWait>>
        /\ UNCHANGED <<probe, sessionVars, codecVars, legacyVars, homeVars>>

\* api 'didFinishLaunching': the first scan()
DidFinishLaunching ==
    /\ ~ platform.launched
    /\ PlatformScan(platform.timers)

\* the timer set by the continuation fires: scan()
RescanTimer(t) ==
    /\ t \in platform.timers
    /\ t.kind = "rescan"
    /\ PlatformScan(platform.timers \ {t})

\* the timer set by scan() fires: ThermSmart.stopScan()
StopTimer(t) ==
    /\ t \in platform.timers
    /\ t.kind = "stop"
    /\ StopScanRadio
    /\ platform' = [platform EXCEPT !.timers = @ \ {t}]
    /\ UNCHANGED <<probe, sessionVars, codecVars, legacyVars, homeVars>>

\* the events of the radio side, with the continuation of scan() for the
\* sessions they settle
PlatformPowerOnTimeout(i) ==
    /\ PowerOnTimeoutRadio(i)
    /\ platform' = ScanSettled(platform, NewlySettled)
    /\ UNCHANGED <<probe, sessionVars, codecVars, legacyVars, homeVars>>

PlatformStartScanningDone(i, error) ==
    /\ StartScanningDoneRadio(i, error)
    /\ platform' = ScanSettled(platform, NewlySettled)
    /\ UNCHANGED <<probe, sessionVars, codecVars, legacyVars, homeVars>>

PlatformStateChange(state) ==
    /\ StateChangeRadio(state)
    /\ platform' = ScanSettled(platform, NewlySettled)
    /\ UNCHANGED <<probe, sessionVars, codecVars, legacyVars, homeVars>>

PlatformScanStop ==
    /\ ScanStopRadio
    /\ platform' = ScanSettled(platform, NewlySettled)
    /\ UNCHANGED <<probe, sessionVars, codecVars, legacyVars, homeVars>>

PlatformInit ==
    /\ RadioInit
    /\ probe = NoProbe
    /\ SessionInit
    /\ OtherIdle

PlatformNext ==
    \/ DidFinishLaunching
    \/ \E t \in platform.timers : RescanTimer(t)
    \/ \E t \in platform.timers : StopTimer(t)
    \/ \E i \in Idx : PlatformPowerOnTimeout(i)
    \/ \E i \in Idx, e \in BOOLEAN : PlatformStartScanningDone(i, e)
    \/ \E s \in States : PlatformStateChange(s)
    \/ PlatformScanStop

PlatformSpec == PlatformInit /\ [][PlatformNext]_vars

\* the event loop fires every armed timer, noble answers startScanning and
\* delivers a queued scanStop; the state of the radio changes or not
FairPlatformSpec ==
    /\ PlatformSpec
    /\ \A c \in 1..MaxScans :
          /\ WF_vars(RescanTimer(RescanTimerOf(c)))
          /\ WF_vars(StopTimer(StopTimerOf(c)))
          /\ WF_vars(c \in Idx /\ PlatformPowerOnTimeout(c))
          /\ WF_vars(\E e \in BOOLEAN : c \in Idx /\ PlatformStartScanningDone(c, e))
    /\ WF_vars(PlatformScanStop)

(***************************************************************************)
(* Claims about the platform.                                              *)
(***************************************************************************)

\* C17: the stop timer of every cycle fires (it is never cancelled) and calls
\* ThermSmart.stopScan; when it fires, no scan of a later cycle is in flight;
\* and scan() is called only when no earlier scan is in flight.
C17_ScanWindowBounded ==
    /\ [][\A t \in platform.timers :
            (t.kind = "stop" /\ t \notin platform'.timers)
               => (StopTimer(t) /\ stopQueued')]_vars
    /\ [][\A t \in platform.timers :
            (t.kind = "stop" /\ StopTimer(t))
               => \A i \in Idx : i > t.cycle => sessions[i].phase \notin InFlight]_vars
    /\ [][Len(sessions') > Len(sessions)
            => \A i \in Idx : sessions[i].phase \notin InFlight]_vars

(***************************************************************************)
(* LegacySpec: one ThermSmartSensor and its calls of loadTemperatureData.  *)
(*                                                                         *)
(* The radio is on, so isPoweredOn() resolves at once.  The peripheral's   *)
(* side of the link is pState, radio and lastNotif, as for a ThermSmart.   *)
(* A call is made when no earlier call is still on its way through scan()  *)
(* and connect() with a callback due.                                      *)
(***************************************************************************)
legacyOff ==
    <<radioVars, probe, conn, reqs, dl, chars, writes, codecVars, platformVars,
      homeVars>>

ChainPhases == {"starting", "scanning", "connecting", "discovering", "subscribing"}

NewLoad == [phase |-> "new", req |-> FALSE, on |-> 0, value |-> NoData, wrote |-> FALSE]

LIdx == 1..Len(loads)

\* the continuation of loadTemperatureData after connect(): the cached
\* payload, or a data listener and the get-temperature command; a TypeError
\* thrown in the executor rejects
LoadBody(c, s) ==
    IF s.temperatureData # NoData
    THEN [c EXCEPT !.phase = "resolved", !.value = s.temperatureData, !.req = FALSE]
    ELSE IF s.notify = 0
    THEN [c EXCEPT !.phase = "rejected", !.req = FALSE]
    ELSE IF s.write = 0
    THEN [c EXCEPT !.phase = "rejected", !.req = FALSE, !.on = s.notify]
    ELSE [c EXCEPT !.phase = "awaiting", !.req = TRUE, !.on = s.notify, !.wrote = TRUE]

\* the continuation of connect() after scan(), for a peripheral in state
SensorConnect(c, s, state) ==
    IF state = "connected"
    THEN LoadBody(c, s)
    ELSE [c EXCEPT !.phase = "connecting", !.req = TRUE]

\* the continuation of scan() after isPoweredOn()
SensorScan(c, s, state) ==
    IF s.peripheral
    THEN SensorConnect(c, s, state)
    ELSE [c EXCEPT !.phase = "starting", !.req = TRUE]

\* peripheral.state after the calls cs have run: peripheral.connect sets it
StateAfter(cs, state) ==
    IF \E k \in DOMAIN cs : cs[k].phase = "connecting" /\ cs[k].req
    THEN "connecting" ELSE state

\* handleDisconnect, registered with once
StickyHandleDisconnect(s) ==
    [s EXCEPT !.peripheral = FALSE, !.write = 0, !.notify = 0, !.listening = FALSE]
HandleDisconnect(s) ==
    [s EXCEPT !.peripheral = FALSE, !.write = 0, !.notify = 0,
              !.temperatureData = NoData, !.listening = FALSE]

\* dataHandler of loadTemperatureData, for a notification
LegacyDataHandler(c, data) ==
    IF data[1] = GET_TEMPERATURE_COMMAND
    THEN IF c.phase = "awaiting"
         THEN [c EXCEPT !.on = 0, !.phase = "resolved", !.value = data]
         ELSE [c EXCEPT !.on = 0]
    ELSE c

\* loadTemperatureData()
LoadTemperatureData ==
    /\ Len(loads) < MaxLoads
    /\ \A k \in LIdx : ~ (loads[k].req /\ loads[k].phase \in ChainPhases)
    /\ LET c == SensorScan(NewLoad, sensor, pState)
       IN  /\ loads' = Append(loads, c)
           /\ pState' = StateAfter(<<c>>, pState)
    /\ lastNotif' = [lastNotif EXCEPT !.fired = FALSE]
    /\ UNCHANGED <<sensor, radio>>
    /\ UNCHANGED legacyOff

\* the callback of noble.startScanning in scan()
LegacyStartScanningDone(k, error) ==
    /\ loads[k].phase = "starting"
    /\ loads[k].req
    /\ loads' = [loads EXCEPT ![k] =
                   IF error THEN [@ EXCEPT !.phase = "rejected", !.req = FALSE]
                   ELSE [@ EXCEPT !.phase = "scanning"]]
    /\ lastNotif' = [lastNotif EXCEPT !.fired = FALSE]
    /\ UNCHANGED <<sensor, radio, pState>>
    /\ UNCHANGED legacyOff

\* noble emits discover: discoverHandler of scan(); match says whether
\* this.address is null or equal to the address of the peripheral
LegacyDiscover(match) ==
    /\ \E k \in LIdx : loads[k].phase = "scanning"
    /\ IF match
       THEN LET s == [sensor EXCEPT !.peripheral = TRUE, !.listening = TRUE]
                cs == [k \in LIdx |->
                         IF loads[k].phase = "scanning"
                         THEN SensorConnect(loads[k], s, pState) ELSE loads[k]]
            IN  /\ sensor' = s
                /\ loads' = cs
                /\ pState' = StateAfter(cs, pState)
       ELSE UNCHANGED <<sensor, loads, pState>>
    /\ lastNotif' = [lastNotif EXCEPT !.fired = FALSE]
    /\ UNCHANGED radio
    /\ UNCHANGED legacyOff

\* the callback of peripheral.connect in connect()
LegacyConnectDone(k, error) ==
    /\ loads[k].phase = "connecting"
    /\ loads[k].req
    /\ IF error
       THEN /\ loads' = [loads EXCEPT ![k] = [@ EXCEPT !.phase = "rejected", !.req = FALSE]]
            /\ pState' = "disconnected"
       ELSE /\ loads' = [loads EXCEPT ![k] = [@ EXCEPT !.phase = "discovering"]]
            /\ pState' = "connected"
    /\ lastNotif' = [lastNotif EXCEPT !.fired = FALSE]
    /\ UNCHANGED <<sensor, radio>>
    /\ UNCHANGED legacyOff

\* the callback of discoverSomeServicesAndCharacteristics in connect(): the
\* characteristics found are stored, then notifyCharacteristic.subscribe is
\* called, which throws out of the callback when the field is null
LegacyDiscoverDone(k, error, found) ==
    /\ loads[k].phase = "discovering"
    /\ loads[k].req
    /\ IF error
       THEN /\ loads' = [loads EXCEPT ![k] = [@ EXCEPT !.phase = "rejected", !.req = FALSE]]
            /\ UNCHANGED <<sensor, radio>>
       ELSE LET gen == radio.gen + 1
                s == [sensor EXCEPT
                        !.write = IF found = "noWrite" THEN @ ELSE gen,
                        !.notify = IF found = "noNotify" THEN @ ELSE gen]
            IN  /\ sensor' = s
                /\ radio' = [radio EXCEPT !.gen = gen, !.notify = NotifyHandle(found, gen)]
                /\ loads' = [loads EXCEPT ![k] =
                               IF s.notify = 0
                               THEN [@ EXCEPT !.phase = "thrown", !.req = FALSE]
                               ELSE [@ EXCEPT !.phase = "subscribing"]]
    /\ lastNotif' = [lastNotif EXCEPT !.fired = FALSE]
    /\ UNCHANGED pState
    /\ UNCHANGED legacyOff

\* the callback of notifyCharacteristic.subscribe in connect()
LegacySubscribeDone(k, error) ==
    /\ loads[k].phase = "subscribing"
    /\ loads[k].req
    /\ IF error
       THEN /\ loads' = [loads EXCEPT ![k] = [@ EXCEPT !.phase = "rejected", !.req = FALSE]]
            /\ UNCHANGED radio
       ELSE /\ loads' = [loads EXCEPT ![k] = LoadBody(@, sensor)]
            /\ radio' = [radio EXCEPT !.subscribed = TRUE]
    /\ lastNotif' = [lastNotif EXCEPT !.fired = FALSE]
    /\ UNCHANGED <<sensor, pState>>
    /\ UNCHANGED legacyOff

\* the callback of writeCharacteristic.write in loadTemperatureData
LegacyWriteDone(k, error) ==
    /\ loads[k].wrote
    /\ loads[k].req
    /\ loads' = [loads EXCEPT ![k] =
                   IF error
                   THEN IF @.phase = "awaiting"
                        THEN [@ EXCEPT !.req = FALSE, !.on = 0, !.phase = "rejected"]
                        ELSE [@ EXCEPT !.req = FALSE, !.on = 0]
                   ELSE [@ EXCEPT !.req = FALSE]]
    /\ lastNotif' = [lastNotif EXCEPT !.fired = FALSE]
    /\ UNCHANGED <<sensor, radio, pState>>
    /\ UNCHANGED legacyOff

\* the notify characteristic emits data: the data handlers registered on it
\* run
LegacyNotify(code) ==
    /\ lastNotif.count < MaxNotifs
    /\ pState = "connected"
    /\ radio.subscribed
    /\ radio.notify # 0
    /\ LET data == <<code, lastNotif.count + 1>>
           heard == { k \in LIdx : loads[k].on = radio.notify }
       IN  /\ lastNotif' = [fired |-> TRUE, data |-> data,
                            on |-> radio.notify, count |-> lastNotif.count + 1]
           /\ loads' = [k \in LIdx |->
                          IF k \in heard THEN LegacyDataHandler(loads[k], data)
                          ELSE loads[k]]
           /\ sensor' = IF heard # {} /\ code = GET_TEMPERATURE_COMMAND
                        THEN [sensor EXCEPT !.temperatureData = data]
                        ELSE sensor
    /\ UNCHANGED <<radio, pState>>
    /\ UNCHANGED legacyOff

\* the peripheral emits disconnect: handleDisconnect runs if it is registered;
\* the link answers no request made on it any more
LegacyDisconnect ==
    /\ pState \in {"connecting", "connected"}
    /\ pState' = "disconnected"
    /\ radio' = [radio EXCEPT !.subscribed = FALSE]
    /\ sensor' = IF sensor.listening THEN HandleDisconnect(sensor) ELSE sensor
    /\ loads' = [k \in LIdx |-> [loads[k] EXCEPT !.req = FALSE]]
    /\ lastNotif' = [lastNotif EXCEPT !.fired = FALSE]
    /\ UNCHANGED legacyOff

LegacyInit ==
    /\ RadioInit
    /\ nobleState = "poweredOn"
    /\ probe = NoProbe
    /\ SessionInit
    /\ OtherIdle

LegacyNext ==
    \/ LoadTemperatureData
    \/ \E k \in LIdx, e \in BOOLEAN : LegacyStartScanningDone(k, e)
    \/ \E m \in BOOLEAN : LegacyDiscover(m)
    \/ \E k \in LIdx, e \in BOOLEAN : LegacyConnectDone(k, e)
    \/ \E k \in LIdx, e \in BOOLEAN, f \in Found : LegacyDiscoverDone(k, e, f)
    \/ \E k \in LIdx, e \in BOOLEAN : LegacySubscribeDone(k, e)
    \/ \E k \in LIdx, e \in BOOLEAN : LegacyWriteDone(k, e)
    \/ \E c \in NotificationCodes : LegacyNotify(c)
    \/ LegacyDisconnect

LegacySpec == LegacyInit /\ [][LegacyNext]_vars

(***************************************************************************)
(* Claims about the legacy sensor.                                         *)
(***************************************************************************)

\* C18: the cache is filled only by a notification whose byte 0 is 0xd2,
\* with that payload, and then keeps it until a disconnect clears it; a call
\* made with the cache filled resolves at once with the cached payload and
\* writes no command; a disconnect clears the cache, and a call resolves
\* with nothing but the cache or a notification heard after its own command;
\* a cached payload implies a peripheral.
C18_CachedForConnection ==
    /\ [][(sensor.temperatureData = NoData /\ sensor'.temperatureData # NoData)
            => /\ lastNotif'.fired
               /\ lastNotif'.data[1] = GET_TEMPERATURE_COMMAND
               /\ sensor'.temperatureData = lastNotif'.data]_vars
    /\ [][(sensor.temperatureData # NoData
             /\ sensor'.temperatureData # sensor.temperatureData)
            => /\ sensor'.temperatureData = NoData
               /\ pState' = "disconnected"]_vars
    /\ [][(Len(loads') > Len(loads) /\ sensor.temperatureData # NoData)
            => LET c == loads'[Len(loads')]
               IN  /\ c.phase = "resolved"
                   /\ c.value = sensor.temperatureData
                   /\ ~ c.wrote]_vars
    /\ [][(pState # "disconnected" /\ pState' = "disconnected")
            => sensor'.temperatureData = NoData]_vars
    /\ [][\A k \in LIdx :
            (loads[k].phase # "resolved" /\ loads'[k].phase = "resolved")
               => /\ loads'[k].wrote
                  /\ lastNotif'.fired
                  /\ loads'[k].value = lastNotif'.data]_vars
    /\ [](sensor.temperatureData # NoData => sensor.peripheral)

\* a second call was answered from the cache, without a command
C18_Witness ==
    /\ sensor.temperatureData # NoData
    /\ \E j, k \in LIdx :
          /\ j < k
          /\ loads[j].phase = "resolved" /\ loads[j].wrote
          /\ loads[k].phase = "resolved" /\ ~ loads[k].wrote
          /\ loads[k].value = sensor.temperatureData

(***************************************************************************)
(* More claims about a ThermSmart instance.                                *)
(***************************************************************************)

\* C19: a call of write with a response code has its data listener on the
\* notify characteristic when the radio write is issued; a matching
\* notification delivered on that characteristic resolves it, before or
\* after the write callback, and a resolved call has no listener; a call with
\* the null sentinel never has a listener and resolves exactly in the step
\* in which its write callback reports no error.
C19_ListenerBeforeWriteOneShot ==
    /\ [][\A rc \in ResponseCommands \ {NoResponse} :
            (Write(rc) /\ writes'[Len(writes')].ack)
               => /\ writes'[Len(writes')].on = chars.notify
                  /\ writes'[Len(writes')].on # 0]_vars
    /\ [][\A k \in WIdx :
            (Awaiting(writes[k]) /\ Delivered(k) /\ lastNotif'.data[1] = writes[k].rc)
               => /\ writes'[k].status = "resolved"
                  /\ writes'[k].on = 0
                  /\ writes'[k].ack = writes[k].ack]_vars
    /\ [](\A k \in WIdx : writes[k].status = "resolved" => writes[k].on = 0)
    /\ [](\A k \in WIdx :
            writes[k].rc = NoResponse => (writes[k].on = 0 /\ writes[k].heard = 0))
    /\ [][\A k \in WIdx :
            (writes[k].rc = NoResponse /\ writes[k].status = "pending")
               => (writes'[k].status = "resolved" <=> WriteDone(k, FALSE))]_vars

\* a call awaiting 0xd1 was resolved by a notification that came before its
\* write callback, and a call with the null sentinel was resolved by its
\* write callback
C19_Witness ==
    \E j, k \in WIdx :
        /\ writes[j].rc = TIME_RESPONSE
        /\ writes[j].status = "resolved"
        /\ writes[j].ack
        /\ writes[k].rc = NoResponse
        /\ writes[k].status = "resolved"

(***************************************************************************)
(* AccessorySpec: the accessory list of a ThermSmartPlatform under calls   *)
(* of readingHandler.  A falsy reading.sensor or peripheral.address is the *)
(* empty string.                                                           *)
(***************************************************************************)

Roles == {"indoor", "outdoor"}

ReadingTypes == {"temperature", "humidity", "battery-level", "pressure"}

PeripheralAddresses == {"", "a1", "a2"}

ReadingValues == {5, 50}

\* the readings handed to readingHandler; the value is only read for a
\* battery level, so the other types come with one value
Readings ==
    [sensor : Roles \cup {""}, type : {"battery-level"}, value : ReadingValues]
      \cup [sensor : Roles \cup {""}, type : ReadingTypes \ {"battery-level"},
            value : {50}]

\* the accessory built by addAccessory(type, address) at time now: its
\* context, whether it has a HumiditySensor service, and its battery
\* characteristics
NewAccessory(type, address, now) ==
    [type |-> type, address |-> address, lastUpdated |-> now,
     humidityService |-> (type = "indoor"), level |-> 0, low |-> FALSE]

\* addAccessory(type, address): throws without a type or an address, else
\* pushes the new accessory
addAccessory(accs, type, address, now) ==
    IF type = "" \/ address = ""
    THEN [accessories |-> accs, threw |-> TRUE]
    ELSE [accessories |-> Append(accs, NewAccessory(type, address, now)),
          threw |-> FALSE]

Matching(accs, type, address) ==
    {i \in DOMAIN accs : accs[i].type = type /\ accs[i].address = address}

\* a lookup that never finds an accessory
noAccessory(accs, type, address) == 0

\* getAccessory(type, address): the index of the first accessory with this
\* type and address, 0 for null
getAccessory(accs, type, address) ==
    IF Matching(accs, type, address) = {}
    THEN 0
    ELSE CHOOSE i \in Matching(accs, type, address) :
            \A j \in Matching(accs, type, address) : i <= j

\* the battery-level branch of readingHandler
SetBattery(accs, address, level) ==
    [i \in DOMAIN accs |->
        IF accs[i].address = address
        THEN [accs[i] EXCEPT !.level = level, !.low = (level < 10)]
        ELSE accs[i]]

\* readingHandler(reading, peripheral) on the list accs at time now: the list
\* after the call, and whether the call threw (a humidity reading for an
\* accessory without a HumiditySensor service)
readingHandler(accs, reading, address, now) ==
    IF address = ""
    THEN [accessories |-> accs, threw |-> FALSE]
    ELSE IF reading.sensor = ""
    THEN IF reading.type = "battery-level"
         THEN [accessories |-> SetBattery(accs, address, reading.value),
               threw |-> FALSE]
         ELSE [accessories |-> accs, threw |-> FALSE]
    ELSE IF reading.type # "temperature" /\ reading.type # "humidity"
    THEN [accessories |-> accs, threw |-> FALSE]
    ELSE LET found == getAccessory(accs, reading.sensor, address)
             added == IF found = 0
                      THEN addAccessory(accs, reading.sensor, address, now)
                      ELSE [accessories |-> accs, threw |-> FALSE]
             i     == IF found = 0 THEN Len(added.accessories) ELSE found
         IN  IF added.threw
             THEN added
             ELSE [accessories |->
                      [added.accessories EXCEPT ![i].lastUpdated = now],
                   threw |-> (reading.type = "humidity"
                              /\ ~added.accessories[i].humidityService)]

\* a discover event makes scanForReadings call readingHandler
ReadingHandler(reading, address) ==
    /\ accessories' =
          readingHandler(accessories, reading, address, cleaning.now).accessories
    /\ lastReading' =
          [handled |-> TRUE, sensor |-> reading.sensor, type |-> reading.type,
           address |-> address,
           threw |-> readingHandler(accessories, reading, address, cleaning.now).threw]
    /\ UNCHANGED <<radioVars, probe, sessionVars, codecVars, platformVars, legacyVars,
                   cleaning>>

\* the (sensor role, address) pairs of a list, in list order
Keys(accs) == [i \in DOMAIN accs |-> <<accs[i].type, accs[i].address>>]

NoDuplicates(accs) ==
    \A i, j \in DOMAIN accs : Keys(accs)[i] = Keys(accs)[j] => i = j

\* the lists configureAccessory can have loaded from the cache: up to two
\* accessories, no (type, address) pair twice
CachedLists ==
    {<<>>}
      \cup {<<NewAccessory(t, a, 0)>> : t \in Roles, a \in PeripheralAddresses \ {""}}
      \cup {s \in {<<NewAccessory(t1, a1, 0), NewAccessory(t2, a2, 0)>> :
                      t1, t2 \in Roles, a1, a2 \in PeripheralAddresses \ {""}} :
               NoDuplicates(s)}

AccessoryInit ==
    /\ RadioInit
    /\ probe = NoProbe
    /\ SessionInit
    /\ calc = NoCalc
    /\ platform = NewPlatform
    /\ sensor = NewSensor
    /\ loads = <<>>
    /\ accessories \in CachedLists
    /\ lastReading = NoReading
    /\ cleaning = NoCleaning

AccessoryNext ==
    \E reading \in Readings, address \in PeripheralAddresses :
        ReadingHandler(reading, address)

AccessorySpec == AccessoryInit /\ [][AccessoryNext]_vars

\* the reading just handled is one that may create an accessory
Creating(r) ==
    /\ r.handled
    /\ r.address # ""
    /\ r.sensor # ""
    /\ r.type \in {"temperature", "humidity"}

\* C20: the accessory list never holds two accessories with the same sensor
\* role and address; a call of readingHandler adds at most one accessory, at
\* the end, and only for a temperature or humidity reading with a sensor
\* role from a peripheral with an address, whose pair was not in the list;
\* every other call leaves the (role, address) pairs of the list unchanged.
C20_OneAccessoryPerSensor ==
    /\ [](NoDuplicates(accessories))
    /\ [][\/ Keys(accessories') = Keys(accessories)
          \/ /\ Creating(lastReading')
             /\ Keys(accessories') =
                   Append(Keys(accessories),
                          <<lastReading'.sensor, lastReading'.address>>)
             /\ getAccessory(accessories, lastReading'.sensor,
                             lastReading'.address) = 0]_vars
    /\ [][(lastReading'.handled /\ ~Creating(lastReading'))
             => Keys(accessories') = Keys(accessories)]_vars

\* four accessories are in the list, the indoor and the outdoor sensor of
\* address a1 among them with a low battery level reported, and the reading
\* just handled found the accessory of its sensor in the list
C20_Witness ==
    /\ Len(accessories) = 4
    /\ \E i, j \in DOMAIN accessories :
          /\ accessories[i].address = "a1" /\ accessories[i].type = "indoor"
          /\ accessories[j].address = "a1" /\ accessories[j].type = "outdoor"
          /\ accessories[i].low /\ accessories[j].low
    /\ Creating(lastReading)
    /\ getAccessory(accessories, lastReading.sensor, lastReading.address)
          < Len(accessories)

(***************************************************************************)
(* More claims about the platform.                                         *)
(***************************************************************************)

RescanTimers(pl) == {t \in pl.timers : t.kind = "rescan"}

\* C21, the scheduling: a step in which the scanForReadings promise of a
\* cycle settles, resolved or rejected, arms the rescan timer of that cycle
\* and no other; a rescan timer is armed in no other step; at most one
\* rescan timer is armed at any time; and a rescan timer leaves the armed
\* set only by firing, which calls scan().
C21_OneRescanPerCycle ==
    /\ [][RescanTimers(platform') \ RescanTimers(platform)
             = {RescanTimerOf(c) : c \in NewlySettled}]_vars
    /\ [][Cardinality(NewlySettled) <= 1]_vars
    /\ [](Cardinality(RescanTimers(platform)) <= 1)
    /\ [][\A t \in RescanTimers(platform) :
            t \notin platform'.timers
               => (RescanTimer(t) /\ Len(sessions') = Len(sessions) + 1)]_vars

\* C21: the scheduling above, and every call of scan() is followed by the
\* next one.
C21_ScanningNeverStops ==
    /\ C21_OneRescanPerCycle
    /\ \A c \in 1..(MaxScans - 1) : (Len(sessions) = c) ~> (Len(sessions) > c)

(***************************************************************************)
(* CleaningSpec: the interval callback of startPeriodicCleaning, between   *)
(* readings of the two sensors of one address.  cleaning.now is Date.now().*)
(***************************************************************************)

\* the test of the cleaning loop, with >= for >
StaleAtLimit(a, now) == now - a.lastUpdated >= MaxStaleTime

\* now - accessory.context.lastUpdated > maxStaleTime
IsStale(a, now) == now - a.lastUpdated > MaxStaleTime

\* toRemove.includes(a)
Includes(s, a) == \E i \in DOMAIN s : s[i] = a

ToRemove(accs, now) == SelectSeq(accs, LAMBDA a : IsStale(a, now))

\* this.accessories after the interval callback at time now
Cleaned(accs, now) ==
    IF Len(ToRemove(accs, now)) > 0
    THEN SelectSeq(accs, LAMBDA a : ~ Includes(ToRemove(accs, now), a))
    ELSE accs

\* the interval callback: unregisterPlatformAccessories is called with
\* toRemove when it is not empty
CleanUp ==
    /\ accessories' = Cleaned(accessories, cleaning.now)
    /\ cleaning' = [cleaning EXCEPT !.ticked = TRUE,
                                    !.unregistered = ToRemove(accessories, cleaning.now)]
    /\ UNCHANGED <<radioVars, probe, sessionVars, codecVars, platformVars, legacyVars,
                   lastReading>>

\* time passes
TimePasses ==
    /\ cleaning.now < MaxTime
    /\ cleaning' = [cleaning EXCEPT !.now = @ + 1, !.ticked = FALSE]
    /\ UNCHANGED <<radioVars, probe, sessionVars, codecVars, platformVars, legacyVars,
                   accessories, lastReading>>

CleaningReadings == [sensor : Roles, type : {"temperature"}, value : {50}]

CleaningInit ==
    /\ RadioInit
    /\ probe = NoProbe
    /\ SessionInit
    /\ calc = NoCalc
    /\ platform = NewPlatform
    /\ sensor = NewSensor
    /\ loads = <<>>
    /\ accessories \in {s \in CachedLists : \A i \in DOMAIN s : s[i].address = "a1"}
    /\ lastReading = NoReading
    /\ cleaning = NoCleaning

CleaningNext ==
    \/ CleanUp
    \/ TimePasses
    \/ \E reading \in CleaningReadings : ReadingHandler(reading, "a1")

CleaningSpec == CleaningInit /\ [][CleaningNext]_vars

\* the accessory was last updated more than maxStaleTime before now
Older(a, now) == a.lastUpdated + MaxStaleTime < now

\* C22: a cleaning tick unregisters exactly the accessories of the list that
\* are older than maxStaleTime, each once, and removes exactly these from the
\* list; the others stay in the list, nothing else enters it, and after the
\* tick no accessory of the list is older than maxStaleTime; no other step
\* unregisters an accessory.
C22_CleaningRemovesExactlyStale ==
    /\ [][CleanUp =>
            /\ \A i \in DOMAIN accessories :
                  /\ Older(accessories[i], cleaning.now)
                        <=> Includes(cleaning'.unregistered, accessories[i])
                  /\ Older(accessories[i], cleaning.now)
                        <=> ~ Includes(accessories', accessories[i])
            /\ \A j \in DOMAIN accessories' : Includes(accessories, accessories'[j])
            /\ Len(accessories') + Len(cleaning'.unregistered) = Len(accessories)
            /\ \A j \in DOMAIN accessories' :
                  ~ Older(accessories'[j], cleaning'.now)]_vars
    /\ [][cleaning'.unregistered # cleaning.unregistered => CleanUp]_vars
    /\ [](cleaning.ticked =>
            \A j \in DOMAIN accessories : ~ Older(accessories[j], cleaning.now))

\* a tick unregistered one accessory and kept the other, which was last
\* updated exactly maxStaleTime before
C22_Witness ==
    /\ cleaning.ticked
    /\ Len(cleaning.unregistered) = 1
    /\ Older(cleaning.unregistered[1], cleaning.now)
    /\ Len(accessories) = 1
    /\ accessories[1].lastUpdated + MaxStaleTime = cleaning.now

====
